---- MODULE Spec2Model ----
(***************************************************************************)
(* pwrAB: power analysis for A/B tests with Welch's t-test.                *)
(*                                                                         *)
(* The model follows one call of an entry point (ab_t2n or ab_t2n_prop)    *)
(* from its argument validation through the construction of the solver    *)
(* object and its pwr_test() to the returned record or the raised          *)
(* exception (pc: call, validated, constructed, returned / raised), and    *)
(* a caller that constructs a solver class itself and calls pwr_test()     *)
(* on it twice (pc: new, solver, solved / raised, solved_again /           *)
(* raised_again).                                                          *)
(*                                                                         *)
(* Numbers are fixed-point integers:                                       *)
(*   proportions, mean_diff       in units of 1/PU  (PU = 40, 1.0 = 40);   *)
(*        the caller's values are even, an odd value is a root that lies   *)
(*        strictly between two neighbouring even grid points;              *)
(*   sd_a, sd_b                   as surds: v stands for sqrt(v)/PU (and   *)
(*        -v for its negative), so that sd**2 is exact;                    *)
(*   percent_b                    in units of 1/BU  (BU = 20);             *)
(*   sig_level, power             in permille;                             *)
(*   max_sample                   in halves (MU = 2), so x.5 is a value;   *)
(*   a trial n of the n search    as a fraction <<num, den>>.              *)
(* An optional argument is <<>> (None) or <<v>>; a two-root result is      *)
(* <<lower, upper>>.                                                       *)
(*                                                                         *)
(* scipy's distributions are outside the repository.  Their place is taken *)
(* by the normal approximation of the noncentral t: the power exceeds the  *)
(* target exactly when the noncentrality delta = mean_diff / sqrt(V)       *)
(* exceeds K = z(1 - alpha') + z(power) in the direction of the            *)
(* alternative, with z read from the table PhiTab.  V, n_a, n_b and the    *)
(* choice of the branch are computed as the code computes them.            *)
(***************************************************************************)
EXTENDS Integers, Sequences, FiniteSets, TLC

VARIABLES fn, args, pc, built, self, calls, exc, result

vars == <<fn, args, pc, built, self, calls, exc, result>>

---------------------------------------------------------------------------
(* Units *)

PU == 40
BU == 20
MU == 2
Permille == 1000

None == <<>>
Some(v) == <<v>>
IsNone(x) == x = <<>>
Val(x) == x[1]

Abs(x) == IF x < 0 THEN 0 - x ELSE x
Max(a, b) == IF a >= b THEN a ELSE b
Min(a, b) == IF a <= b THEN a ELSE b

\* math.ceil of the fraction num/den (den > 0)
Ceil(num, den) == IF num % den = 0 THEN num \div den ELSE (num \div den) + 1

\* a <= b, a < b for fractions <<num, den>> with positive denominators
FracLt(a, b) == a[1] * b[2] < b[1] * a[2]
FracMax(a, b) == IF FracLt(a, b) THEN b ELSE a

---------------------------------------------------------------------------
(* scipy.stats: the standard normal table standing for t and nct *)

\* Phi(z) in permille for z = 0.0, 0.1, ..., 3.0
PhiTab ==
  << 500, 540, 579, 618, 655, 691, 726, 758, 788, 816,
     841, 864, 885, 903, 919, 933, 945, 955, 964, 971,
     977, 982, 986, 989, 992, 994, 995, 997, 997, 998, 999 >>

ZTop == Len(PhiTab) - 1

\* Phi at z tenths, saturating outside the table
Phi(z10) ==
  IF z10 >= 0 THEN PhiTab[Min(z10, ZTop) + 1]
  ELSE Permille - PhiTab[Min(0 - z10, ZTop) + 1]

\* the quantile in tenths: the least z with Phi(z) >= q
Zq(q) ==
  IF Phi(ZTop) < q THEN ZTop
  ELSE CHOOSE z \in (0 - ZTop)..ZTop :
         Phi(z) >= q /\ (z = 0 - ZTop \/ Phi(z - 1) < q)

\* floor of the square root, by search below a known cap
ISqrt(x, cap) == CHOOSE r \in 0..cap : r * r <= x /\ (r = cap \/ (r + 1) * (r + 1) > x)

---------------------------------------------------------------------------
(* The power formula shared by _get_power and the residual helpers *)

\* a casefold that also reads the underscore spelling as two-sided
casefold_lenient(s) ==
  CASE s = "Less" -> "less"
    [] s = "Two-Sided" -> "two-sided"
    [] s = "two_sided" -> "two-sided"
    [] s = "Greater" -> "greater"
    [] OTHER -> s

\* str.casefold on the spellings the callers of the model use
casefold(s) ==
  CASE s = "Less" -> "less"
    [] s = "Two-Sided" -> "two-sided"
    [] s = "Greater" -> "greater"
    [] OTHER -> s

\* sd ** 2 of a surd
Sq(sd) == Abs(sd)

\* math.sqrt(p * (1 - p)) as a surd
SdOfProp(p) == p * (PU - p)

\* z at 1e-10, the end of the sig_level bracket (tenths)
ZEnd == 64

\* the critical value in tenths: t_dist.isf(sig_level / 2) when two-sided,
\* t_dist.isf(sig_level) otherwise; a trial sig_level of 0 stands for 1e-10
\* and one of Permille for 1 - 1e-10
Za(alt, sig) ==
  IF sig <= 0 THEN ZEnd
  ELSE IF sig >= Permille THEN (IF alt = "two-sided" THEN 0 ELSE 0 - ZEnd)
  ELSE IF alt = "two-sided" THEN Zq(Permille - sig \div 2)
  ELSE Zq(Permille - sig)

\* K = z(1 - alpha') + z(power) in tenths
K10(alt, sig, power) == Za(alt, sig) + Zq(power)

\* K ** 2 in tenths
K2(k) == (k * k) \div 10

\* n_b = n * percent_b and n_a = n - n_b against 0 and 1 (one): a division by
\* n_a, n_b, n_a - 1 or n_b - 1 equal to zero, or by sqrt(pooled_var) = 0,
\* raises ZeroDivisionError; a group size below 1 makes df meaningless (nan)
DomainOf(nb, na, one, novar) ==
  IF nb = 0 \/ na = 0 \/ nb = one \/ na = one \/ novar THEN "ZeroDivisionError"
  ELSE IF nb < one \/ na < one THEN "nan"
  ELSE "ok"

\* the domain of the formula at n = nn/nd, percent_b = pb
Domain(va, vb, nn, nd, pb) ==
  DomainOf(nn * pb, nn * (BU - pb), nd * BU, va = 0 /\ vb = 0)

\* whether mean_diff points where the alternative looks: 1, 0 (no
\* difference) or -1
Dir(alt, md) ==
  IF alt = "less" THEN (IF md < 0 THEN 1 ELSE IF md = 0 THEN 0 ELSE 0 - 1)
  ELSE IF alt = "two-sided" THEN (IF md = 0 THEN 0 ELSE 1)
  ELSE (IF md > 0 THEN 1 ELSE IF md = 0 THEN 0 ELSE 0 - 1)

\* m ** 2 against R / D
Cmp(m, R, D) ==
  IF m * m > R \div D THEN "pos"
  ELSE IF m * m = R \div D /\ R % D = 0 THEN "zero"
  ELSE "neg"

\* t_stat ** 2 = md**2 / (va/n_a + vb/n_b) against K ** 2, exactly:
\*   10 * md**2 * nn * pb * (BU - pb)  against  K2 * BU * (va*pb + vb*(BU-pb)) * nd
Mag(md, va, vb, nn, nd, pb, k) ==
  Cmp(Min(Abs(md), PU * Permille),
      K2(k) * BU * (va * pb + vb * (BU - pb)) * nd,
      10 * nn * pb * (BU - pb))

\* The sign of power - target: the power exceeds the target when t_stat,
\* taken toward the alternative, exceeds K.  With the rejection threshold at
\* 0 the two-sided test always rejects.
Sign(dom, za, k, dir, alt, mag) ==
  IF dom # "ok" THEN dom
  ELSE IF alt = "two-sided" /\ za <= 0 THEN "pos"
  ELSE IF k > 0 THEN (IF dir = 1 THEN mag ELSE "neg")
  ELSE IF k = 0 THEN (IF dir = 1 THEN "pos" ELSE IF dir = 0 THEN "zero" ELSE "neg")
  ELSE IF dir >= 0 THEN "pos"
  ELSE IF mag = "pos" THEN "neg"
  ELSE IF mag = "neg" THEN "pos"
  ELSE "zero"

\* The residual power - self.power of the five helpers at mean_diff md,
\* variances va, vb, n = nn/nd, percent_b = pb: "pos", "zero", "neg", or how
\* the evaluation fails
Residual(alt, md, va, vb, nn, nd, pb, sig, power) ==
  Sign(Domain(va, vb, nn, nd, pb), Za(alt, sig), K10(alt, sig, power), Dir(alt, md), alt,
       Mag(md, va, vb, nn, nd, pb, K10(alt, sig, power)))

\* floor(10 * sqrt(A / B)), capped
Delta10Of(A, B) == ISqrt(Min(100 * (A \div B) + (100 * (A % B)) \div B, 10000), 100)

\* t_stat in tenths (floor), for the values the solver returns
Delta10(md, va, vb, n, pb) ==
  Delta10Of(md * md * n * pb * (BU - pb), BU * (va * pb + vb * (BU - pb)))

\* the signed noncentrality as the alternative sees it
Toward(alt, md, d10) ==
  IF alt = "less" THEN (IF md < 0 THEN d10 ELSE 0 - d10)
  ELSE IF alt = "two-sided" THEN d10
  ELSE (IF md > 0 THEN d10 ELSE 0 - d10)

Clamp(p) == Max(1, Min(Permille - 1, p))

---------------------------------------------------------------------------
(* scipy.optimize: bisect, brentq, ridder, toms748 *)

\* What a bracketing root-finder does with f(a), f(b): an exception raised by
\* f propagates; a nan value and a bracket without a sign change are a
\* ValueError; otherwise it converges to a root in the bracket.
FinderOutcome(fa, fb) ==
  IF fa \in {"ZeroDivisionError", "ValueError"} THEN fa
  ELSE IF fb \in {"ZeroDivisionError", "ValueError"} THEN fb
  ELSE IF fa = "nan" \/ fb = "nan" THEN "ValueError"
  ELSE IF fa = fb /\ fa # "zero" THEN "ValueError"
  ELSE "root"

\* one call of a root-finder, as the solver's log keeps it
Call(finder, fun, a, b, out) ==
  [finder |-> finder, fun |-> fun, a |-> a, b |-> b, out |-> out]

\* what a solve leaves behind: the exception ("" for none), the object and
\* the root-finder calls made
Outcome(e, o, cs) == [exc |-> e, self |-> o, calls |-> cs]

---------------------------------------------------------------------------
(* ab_t2n_class *)

\* ab_t2n_class.__init__ raises TypeError on abs(None)
ab_t2n_class_init_raises(a) ==
  casefold(a.alternative) = "two-sided" /\ IsNone(a.mean_diff)

\* ab_t2n_class.__init__ taking abs(mean_diff) for every alternative
ab_t2n_class_init_abs_always(a) ==
  [ n |-> a.n, percent_b |-> a.percent_b,
    sd_a |-> a.sd_a, sd_b |-> a.sd_b,
    sig_level |-> a.sig_level, power |-> a.power,
    alternative |-> casefold(a.alternative),
    max_sample |-> MU * Ceil(a.max_sample, MU),
    mean_diff |-> IF IsNone(a.mean_diff) THEN None ELSE Some(Abs(Val(a.mean_diff))),
    prop_a |-> None, prop_b |-> None ]

\* ab_t2n_class.__init__ on the arguments a
ab_t2n_class_init(a) ==
  [ n |-> a.n, percent_b |-> a.percent_b,
    sd_a |-> a.sd_a, sd_b |-> a.sd_b,
    sig_level |-> a.sig_level, power |-> a.power,
    alternative |-> casefold(a.alternative),
    max_sample |-> MU * Ceil(a.max_sample, MU),
    mean_diff |-> IF casefold(a.alternative) = "two-sided"
                    THEN Some(Abs(Val(a.mean_diff))) ELSE a.mean_diff,
    prop_a |-> None, prop_b |-> None ]

\* the power _get_power computes where the formula is defined
power_value(o) ==
  Clamp(Phi(Toward(o.alternative, Val(o.mean_diff),
                   Delta10(Val(o.mean_diff), Sq(Val(o.sd_a)), Sq(Val(o.sd_b)),
                           Val(o.n), Val(o.percent_b)))
            - Za(o.alternative, Val(o.sig_level))))

\* <<exception, value>> of _get_power; float("nan") is -1
PowerResult(dom, p) ==
  IF dom = "ZeroDivisionError" THEN <<dom, None>>
  ELSE IF dom = "nan" THEN <<"", Some(0 - 1)>>
  ELSE <<"", Some(p)>>

\* ab_t2n_class._get_power
get_power(o) ==
  PowerResult(Domain(Sq(Val(o.sd_a)), Sq(Val(o.sd_b)), Val(o.n), 1, Val(o.percent_b)),
              power_value(o))

\* ab_t2n_class._get_n at the trial n = nn/nd
get_n(o, nn, nd) ==
  Residual(o.alternative, Val(o.mean_diff), Sq(Val(o.sd_a)), Sq(Val(o.sd_b)),
           nn, nd, Val(o.percent_b), Val(o.sig_level), Val(o.power))

\* ab_t2n_class._get_percent_b
get_percent_b(o, percent_b) ==
  Residual(o.alternative, Val(o.mean_diff), Sq(Val(o.sd_a)), Sq(Val(o.sd_b)),
           Val(o.n), 1, percent_b, Val(o.sig_level), Val(o.power))

\* ab_t2n_class._get_mean_diff
get_mean_diff(o, mean_diff) ==
  Residual(o.alternative, mean_diff, Sq(Val(o.sd_a)), Sq(Val(o.sd_b)),
           Val(o.n), 1, Val(o.percent_b), Val(o.sig_level), Val(o.power))

\* ab_t2n_class._get_sig_level
get_sig_level(o, sig_level) ==
  Residual(o.alternative, Val(o.mean_diff), Sq(Val(o.sd_a)), Sq(Val(o.sd_b)),
           Val(o.n), 1, Val(o.percent_b), sig_level, Val(o.power))

\* self.power = value, unless _get_power raised
SetPower(o, r) ==
  { Outcome(r[1], IF r[1] = "" THEN [o EXCEPT !.power = r[2]] ELSE o, <<>>) }

\* power is None: self.power = self._get_power()
solve_power(o) == SetPower(o, get_power(o))

\* min_n = max(5 / percent_b, 5 / (1 - percent_b))
min_n(o) == FracMax(<<5 * BU, Val(o.percent_b)>>, <<5 * BU, BU - Val(o.percent_b)>>)

\* The residual of _get_n changes sign at n* = RootNum / RootDen:
\*   n* = K2 * BU * (va*pb + vb*(BU-pb)) / (10 * md**2 * pb * (BU-pb))
RootNum(o) ==
  K2(K10(o.alternative, Val(o.sig_level), Val(o.power))) * BU
    * (Sq(Val(o.sd_a)) * Val(o.percent_b) + Sq(Val(o.sd_b)) * (BU - Val(o.percent_b)))

RootDen(o) ==
  10 * Val(o.mean_diff) * Val(o.mean_diff) * Val(o.percent_b) * (BU - Val(o.percent_b))

\* math.ceil of what bisect returns between a and b: bisect stops within its
\* tolerance of n* inside the bracket, so an n* that is a whole number is
\* rounded to n* or to n* + 1
CeilRoot(fa, fb, a, b, top, Rn, Dn) ==
  IF fa = "zero" THEN { Ceil(a[1], a[2]) }
  ELSE IF fb = "zero" THEN { Ceil(b[1], b[2]) }
  ELSE IF Rn % Dn = 0 /\ (Rn \div Dn) + 1 <= Ceil(top[1], top[2])
    THEN { Rn \div Dn, (Rn \div Dn) + 1 }
  ELSE { Ceil(Rn, Dn) }

\* the values ceil(bisect(self._get_n, a, b)) can take when the bracket
\* straddles
ceil_bisect_n(o, a, b) ==
  CeilRoot(get_n(o, a[1], a[2]), get_n(o, b[1], b[2]), a, b, FracMax(a, b),
           RootNum(o), RootDen(o))

\* one bisect(self._get_n, a, b)
bisect_n(o, a, b) == FinderOutcome(get_n(o, a[1], a[2]), get_n(o, b[1], b[2]))

\* try: self.n = ceil(bisect(.., min_n, hi1))
\* except ValueError: self.n = ceil(bisect(.., min_n, hi2))
NOutcomes(o, lo, hi1, hi2, out1, out2) ==
  IF out1 = "root"
    THEN { Outcome("", [o EXCEPT !.n = Some(r)], <<Call("bisect", "n", lo, hi1, out1)>>) :
             r \in ceil_bisect_n(o, lo, hi1) }
  ELSE IF out1 = "ValueError"
    THEN IF out2 = "root"
           THEN { Outcome("", [o EXCEPT !.n = Some(r)],
                          <<Call("bisect", "n", lo, hi1, out1),
                            Call("bisect", "n", lo, hi2, out2)>>) :
                    r \in ceil_bisect_n(o, lo, hi2) }
         ELSE { Outcome(out2, o, <<Call("bisect", "n", lo, hi1, out1),
                                   Call("bisect", "n", lo, hi2, out2)>>) }
  ELSE { Outcome(out1, o, <<Call("bisect", "n", lo, hi1, out1)>>) }

\* self.max_sample + 1 and self.max_sample / 10 + 1
Hi1(ms) == <<ms + MU, MU>>
Hi2(ms) == <<ms + 10 * MU, 10 * MU>>

\* a faulty variant of the n search: the retry repeats the first bracket
solve_n_same_bracket(o) ==
  NOutcomes(o, min_n(o), Hi1(o.max_sample), Hi1(o.max_sample),
            bisect_n(o, min_n(o), Hi1(o.max_sample)),
            bisect_n(o, min_n(o), Hi1(o.max_sample)))

\* n is None: bisect over [min_n, max_sample + 1] and, on ValueError, once
\* more over [min_n, max_sample / 10 + 1]
solve_n(o) ==
  NOutcomes(o, min_n(o), Hi1(o.max_sample), Hi2(o.max_sample),
            bisect_n(o, min_n(o), Hi1(o.max_sample)),
            bisect_n(o, min_n(o), Hi2(o.max_sample)))

\* the step of the percent_b grid, np.arange(.., .., 0.0001), on the model's
\* coarser percent_b scale
GridStep == 1

\* min_percent_b = max(0.001, 10 / n); the callers' n divide 10 * BU
MinPercentB(f) == Ceil(f[1], f[2])
min_percent_b(o) == MinPercentB(FracMax(<<BU, Permille>>, <<10 * BU, Val(o.n)>>))

\* np.arange(m, 1 - m, 0.0001)
Arange(m) == { g \in 0..BU : g >= m /\ g < BU - m /\ (g - m) % GridStep = 0 }

search_grid(o) == Arange(min_percent_b(o))

\* the greatest element of S
Greatest(S) == CHOOSE g \in S : \A h \in S : g >= h

\* min(...)
Least(S) == CHOOSE g \in S : \A h \in S : g <= h

\* self.percent_b = search_grid[min(np.where(diff_power > 0)[0])]; min() of
\* no value at all is a ValueError
PickPercentB(o, good) ==
  IF good = {} THEN { Outcome("ValueError", o, <<>>) }
  ELSE { Outcome("", [o EXCEPT !.percent_b = Some(Least(good))], <<>>) }

\* percent_b is None: the least grid value whose residual is positive
solve_percent_b(o) ==
  PickPercentB(o, { g \in search_grid(o) : get_percent_b(o, g) = "pos" })

\* the end of the mean_diff bracket, 10_000
MdEnd == 10000 * PU

\* |mean_diff| at the root, between two grid values unless it is one:
\* s = floor(sqrt(q)), rem the remainder of the division that gave q
MdMag(s, q, rem) ==
  IF s % 2 = 0 /\ s * s = q /\ rem = 0 THEN s
  ELSE IF s % 2 = 0 THEN s + 1
  ELSE s

MdRootOf(fa, fb, a, b, mag) ==
  IF fa = "zero" THEN a
  ELSE IF fb = "zero" THEN b
  ELSE IF a < 0 THEN 0 - mag ELSE mag

\* 10 * n * pb * (BU - pb), the divisor of mean_diff**2 = K**2 * V
MdDen(o) == 10 * Val(o.n) * Val(o.percent_b) * (BU - Val(o.percent_b))

\* the root brentq(self._get_mean_diff, a, b) converges to
root_mean_diff(o, a, b) ==
  MdRootOf(get_mean_diff(o, a), get_mean_diff(o, b), a, b,
           MdMag(ISqrt(RootNum(o) \div MdDen(o), Permille),
                 RootNum(o) \div MdDen(o), RootNum(o) % MdDen(o)))

MdOutcomes(o, a, b, out) ==
  IF out = "root"
    THEN { Outcome("", [o EXCEPT !.mean_diff = Some(root_mean_diff(o, a, b))],
                   <<Call("brentq", "mean_diff", a, b, out)>>) }
  ELSE { Outcome(out, o, <<Call("brentq", "mean_diff", a, b, out)>>) }

MdLo(alt) == IF alt = "less" THEN 0 - MdEnd ELSE 0
MdHi(alt) == IF alt = "less" THEN 0 ELSE MdEnd

\* mean_diff is None: brentq over (-10_000, 0) if less, else over (0, 10_000)
solve_mean_diff(o) ==
  MdOutcomes(o, MdLo(o.alternative), MdHi(o.alternative),
             FinderOutcome(get_mean_diff(o, MdLo(o.alternative)),
                           get_mean_diff(o, MdHi(o.alternative))))

\* the root brentq(self._get_sig_level, 1e-10, 1 - 1e-10) converges to
SigOfTail(alt, tail) == Clamp(IF alt = "two-sided" THEN 2 * tail ELSE tail)

root_sig_level(o) ==
  SigOfTail(o.alternative,
            Permille - Phi(Toward(o.alternative, Val(o.mean_diff),
                                  Delta10(Val(o.mean_diff), Sq(Val(o.sd_a)), Sq(Val(o.sd_b)),
                                          Val(o.n), Val(o.percent_b)))
                           - Zq(Val(o.power))))

SigOutcomes(o, root, out) ==
  IF out = "root"
    THEN { Outcome("", [o EXCEPT !.sig_level = Some(root)],
                   <<Call("brentq", "sig_level", 0, Permille, out)>>) }
  ELSE { Outcome(out, o, <<Call("brentq", "sig_level", 0, Permille, out)>>) }

\* sig_level is None: brentq over (1e-10, 1 - 1e-10)
solve_sig_level(o) ==
  SigOutcomes(o, root_sig_level(o),
              FinderOutcome(get_sig_level(o, 0), get_sig_level(o, Permille)))

\* ab_t2n_class.pwr_test up to its return statement
ab_t2n_class_pwr_test(o) ==
  IF IsNone(o.power) THEN solve_power(o)
  ELSE IF IsNone(o.n) THEN solve_n(o)
  ELSE IF IsNone(o.percent_b) THEN solve_percent_b(o)
  ELSE IF IsNone(o.mean_diff) THEN solve_mean_diff(o)
  ELSE IF IsNone(o.sig_level) THEN solve_sig_level(o)
  ELSE { Outcome("ValueError", o, <<>>) }

\* the dict ab_t2n_class.pwr_test returns
ab_t2n_class_record(o) ==
  [ n |-> o.n, percent_b |-> o.percent_b, mean_diff |-> o.mean_diff,
    sd_a |-> o.sd_a, sd_b |-> o.sd_b, sig_level |-> o.sig_level,
    power |-> o.power, alternative |-> Some(o.alternative),
    method |-> Some("t-test Power Calculation") ]

---------------------------------------------------------------------------
(* ab_t2n_prop_class *)

\* self.mean_diff of ab_t2n_prop_class.__init__
PropMeanDiff(alt, prop_a, prop_b) ==
  IF IsNone(prop_a) \/ IsNone(prop_b) THEN None
  ELSE IF alt = "two-sided" THEN Some(Abs(Val(prop_b) - Val(prop_a)))
  ELSE Some(Val(prop_b) - Val(prop_a))

\* self.sd_a, self.sd_b of ab_t2n_prop_class.__init__
PropSd(p) == IF IsNone(p) THEN None ELSE Some(SdOfProp(Val(p)))

\* ab_t2n_prop_class.__init__ on the arguments a
ab_t2n_prop_class_init(a) ==
  [ n |-> a.n, percent_b |-> a.percent_b,
    sd_a |-> PropSd(a.prop_a), sd_b |-> PropSd(a.prop_b),
    sig_level |-> a.sig_level, power |-> a.power,
    alternative |-> casefold(a.alternative),
    max_sample |-> a.max_sample,
    mean_diff |-> PropMeanDiff(casefold(a.alternative), a.prop_a, a.prop_b),
    prop_a |-> a.prop_a, prop_b |-> a.prop_b ]

\* the ab_t2n_class(...) the four delegating helpers construct
delegate(o) == ab_t2n_class_init(o)

\* ab_t2n_prop_class._get_power
prop_get_power(o) == get_power(delegate(o))

\* ab_t2n_prop_class._get_n
prop_get_n(o, nn, nd) == get_n(delegate(o), nn, nd)

\* ab_t2n_prop_class._get_percent_b
prop_get_percent_b(o, percent_b) == get_percent_b(delegate(o), percent_b)

\* ab_t2n_prop_class._get_sig_level
prop_get_sig_level(o, sig_level) == get_sig_level(delegate(o), sig_level)

\* mean_diff of the trial proportion against the known one
TrialDiff(alt, d) == IF alt = "two-sided" THEN Abs(d) ELSE d

\* ab_t2n_prop_class._get_prop_a; math.sqrt of a negative number raises
\* ValueError
get_prop_a(o, prop_a) ==
  IF prop_a * (PU - prop_a) < 0 THEN "ValueError"
  ELSE Residual(o.alternative, TrialDiff(o.alternative, Val(o.prop_b) - prop_a),
                SdOfProp(prop_a), Sq(Val(o.sd_b)),
                Val(o.n), 1, Val(o.percent_b), Val(o.sig_level), Val(o.power))

\* ab_t2n_prop_class._get_prop_b
get_prop_b(o, prop_b) ==
  IF prop_b * (PU - prop_b) < 0 THEN "ValueError"
  ELSE Residual(o.alternative, TrialDiff(o.alternative, prop_b - Val(o.prop_a)),
                Sq(Val(o.sd_a)), SdOfProp(prop_b),
                Val(o.n), 1, Val(o.percent_b), Val(o.sig_level), Val(o.power))

\* the residual helper of the unknown proportion
get_prop(o, field, p) == IF field = "prop_a" THEN get_prop_a(o, p) ELSE get_prop_b(o, p)

\* The roots a finder can converge to between a and b (in either order): an
\* endpoint where the residual is zero, else any place where the residual
\* changes sign; a change between two neighbouring grid values x and x + 2 is
\* the value x + 1
roots_between(o, field, a, b) ==
  IF get_prop(o, field, a) = "zero" THEN { a }
  ELSE IF get_prop(o, field, b) = "zero" THEN { b }
  ELSE { x + 1 : x \in { y \in Min(a, b)..(Max(a, b) - 2) :
                           /\ (y - Min(a, b)) % 2 = 0
                           /\ {get_prop(o, field, y), get_prop(o, field, y + 2)}
                                = {"pos", "neg"} } }
       \cup { x \in (Min(a, b) + 2)..(Max(a, b) - 2) :
                 (x - Min(a, b)) % 2 = 0 /\ get_prop(o, field, x) = "zero" }

\* one call finder(f, a, b): toms748 refuses a >= b before it evaluates f;
\* bisect, brentq and ridder take the bracket in either order
attempt(finder, o, field, a, b) ==
  IF finder = "toms748" /\ a >= b THEN "ValueError"
  ELSE FinderOutcome(get_prop(o, field, a), get_prop(o, field, b))

\* what a ladder leaves: the exception that escaped it, whether a root was
\* found, the roots it may be, the calls made
Rung(e, found, roots, cs) == [exc |-> e, found |-> found, roots |-> roots, calls |-> cs]

RECURSIVE ladder(_, _, _, _, _, _, _)

\* the rung i with the outcome out of its call
ladder_step(finder, half, o, field, bs, i, cs, out) ==
  IF out = "root"
    THEN Rung("", TRUE, roots_between(o, field, bs[i][1], bs[i][2]),
              Append(cs, Call(finder, half, bs[i][1], bs[i][2], out)))
  ELSE IF out = "ValueError"
    THEN ladder(finder, half, o, field, bs, i + 1,
                Append(cs, Call(finder, half, bs[i][1], bs[i][2], out)))
  ELSE Rung(out, FALSE, {}, Append(cs, Call(finder, half, bs[i][1], bs[i][2], out)))

\* try: root = finder(f, bs[i]) except ValueError: the next rung; after the
\* last rung, root = None
ladder(finder, half, o, field, bs, i, cs) ==
  IF i > Len(bs) THEN Rung("", FALSE, {}, cs)
  ELSE ladder_step(finder, half, o, field, bs, i, cs,
                   attempt(finder, o, field, bs[i][1], bs[i][2]))

\* the right ends 1, 0.75, 0.5 of the upper half and the left ends 0, 0.1,
\* 0.2 of the lower half
UpperEnds == <<PU, (3 * PU) \div 4, PU \div 2>>
LowerEnds == <<0, PU \div 10, PU \div 5>>

UpperBrackets(known) == [i \in 1..Len(UpperEnds) |-> <<known, UpperEnds[i]>>]
LowerBrackets(known) == [i \in 1..Len(LowerEnds) |-> <<LowerEnds[i], known>>]

\* root_1 of the prop_a branch: toms748 over (prop_b, 1), (prop_b, 0.75),
\* (prop_b, 0.5), else None
prop_a_upper(o) ==
  ladder("toms748", "upper", o, "prop_a", UpperBrackets(Val(o.prop_b)), 1, <<>>)

\* root_2 of the prop_a branch: toms748 over (0, prop_b), (0.1, prop_b),
\* (0.2, prop_b), else None
prop_a_lower(o) ==
  ladder("toms748", "lower", o, "prop_a", LowerBrackets(Val(o.prop_b)), 1, <<>>)

\* the innermost except of a prop_b ladder: one more ridder call, in no try
LastRungOut(half, o, L, a, b, out) ==
  IF out = "root"
    THEN Rung("", TRUE, roots_between(o, "prop_b", a, b),
              Append(L.calls, Call("ridder", half, a, b, out)))
  ELSE Rung(out, FALSE, {}, Append(L.calls, Call("ridder", half, a, b, out)))

last_rung(half, o, L, a, b) ==
  IF L.exc # "" \/ L.found THEN L
  ELSE LastRungOut(half, o, L, a, b, attempt("ridder", o, "prop_b", a, b))

\* root_1 of the prop_b branch: ridder over (prop_a, 1), (prop_a, 0.75),
\* (prop_a, 0.5), then (prop_a, prop_a + 0.1)
prop_b_upper(o) ==
  last_rung("upper", o,
            ladder("ridder", "upper", o, "prop_b", UpperBrackets(Val(o.prop_a)), 1, <<>>),
            Val(o.prop_a), Val(o.prop_a) + PU \div 10)

\* root_2 of the prop_b branch: ridder over (0, prop_a), (0.1, prop_a),
\* (0.2, prop_a), then (prop_a - 0.1, prop_a)
prop_b_lower(o) ==
  last_rung("lower", o,
            ladder("ridder", "lower", o, "prop_b", LowerBrackets(Val(o.prop_a)), 1, <<>>),
            Val(o.prop_a) - PU \div 10, Val(o.prop_a))

\* the values root_1 or root_2 can have after its ladder
root_values(L) == IF L.found THEN { Some(r) : r \in L.roots } ELSE { None }

\* [root_2, root_1] if both, else the one that is not None, else None
combine(root_1, root_2) ==
  IF ~IsNone(root_1)
    THEN (IF ~IsNone(root_2) THEN <<Val(root_2), Val(root_1)>> ELSE root_1)
  ELSE root_2

\* self.prop_a = v or self.prop_b = v
SetProp(o, field, v) ==
  IF field = "prop_a" THEN [o EXCEPT !.prop_a = v] ELSE [o EXCEPT !.prop_b = v]

\* the two-sided branch storing the root of the upper ladder in the field
\* before the lower ladder has run
two_sided_eager(o, field, up, low) ==
  IF up.exc # "" THEN { Outcome(up.exc, o, up.calls) }
  ELSE IF low.exc # ""
    THEN { Outcome(low.exc, SetProp(o, field, r1), up.calls \o low.calls) :
             r1 \in root_values(up) }
  ELSE { Outcome("", SetProp(o, field, combine(r1, r2)), up.calls \o low.calls) :
           r1 \in root_values(up), r2 \in root_values(low) }

\* the two-sided branch: the upper ladder, then the lower ladder, then the
\* combination; an exception that escapes a ladder ends the solve there
two_sided(o, field, up, low) ==
  IF up.exc # "" THEN { Outcome(up.exc, o, up.calls) }
  ELSE IF low.exc # "" THEN { Outcome(low.exc, o, up.calls \o low.calls) }
  ELSE { Outcome("", SetProp(o, field, combine(r1, r2)), up.calls \o low.calls) :
           r1 \in root_values(up), r2 \in root_values(low) }

OneSidedOut(o, field, a, b, out) ==
  IF out = "root"
    THEN { Outcome("", SetProp(o, field, Some(r)), <<Call("brentq", "single", a, b, out)>>) :
             r \in roots_between(o, field, a, b) }
  ELSE { Outcome(out, o, <<Call("brentq", "single", a, b, out)>>) }

\* a one-sided branch: self.prop = brentq(f, a, b)
one_sided(o, field, a, b) ==
  OneSidedOut(o, field, a, b, attempt("brentq", o, field, a, b))

\* prop_a is None
solve_prop_a(o) ==
  IF o.alternative = "less" THEN one_sided(o, "prop_a", Val(o.prop_b), PU)
  ELSE IF o.alternative = "two-sided"
    THEN two_sided(o, "prop_a", prop_a_upper(o), prop_a_lower(o))
  ELSE one_sided(o, "prop_a", 0, Val(o.prop_b))

\* prop_b is None
solve_prop_b(o) ==
  IF o.alternative = "less" THEN one_sided(o, "prop_b", Val(o.prop_a), PU)
  ELSE IF o.alternative = "two-sided"
    THEN two_sided(o, "prop_b", prop_b_upper(o), prop_b_lower(o))
  ELSE one_sided(o, "prop_b", 0, Val(o.prop_a))

\* power is None
prop_solve_power(o) == SetPower(o, prop_get_power(o))

PropNOutcomes(o, lo, hi, out) ==
  IF out = "root"
    THEN { Outcome("", [o EXCEPT !.n = Some(r)], <<Call("bisect", "n", lo, hi, out)>>) :
             r \in ceil_bisect_n(delegate(o), lo, hi) }
  ELSE { Outcome(out, o, <<Call("bisect", "n", lo, hi, out)>>) }

\* n is None: self.n = ceil(bisect(self._get_n, min_n, self.max_sample + 1))
prop_solve_n(o) ==
  PropNOutcomes(o, min_n(o), Hi1(o.max_sample),
                FinderOutcome(prop_get_n(o, min_n(o)[1], min_n(o)[2]),
                              prop_get_n(o, Hi1(o.max_sample)[1], Hi1(o.max_sample)[2])))

\* percent_b is None
prop_solve_percent_b(o) ==
  PickPercentB(o, { g \in search_grid(o) : prop_get_percent_b(o, g) = "pos" })

\* sig_level is None
prop_solve_sig_level(o) ==
  SigOutcomes(o, root_sig_level(delegate(o)),
              FinderOutcome(prop_get_sig_level(o, 0), prop_get_sig_level(o, Permille)))

\* ab_t2n_prop_class.pwr_test up to its return statement
ab_t2n_prop_class_pwr_test(o) ==
  IF IsNone(o.power) THEN prop_solve_power(o)
  ELSE IF IsNone(o.n) THEN prop_solve_n(o)
  ELSE IF IsNone(o.prop_a) THEN solve_prop_a(o)
  ELSE IF IsNone(o.prop_b) THEN solve_prop_b(o)
  ELSE IF IsNone(o.percent_b) THEN prop_solve_percent_b(o)
  ELSE IF IsNone(o.sig_level) THEN prop_solve_sig_level(o)
  ELSE { Outcome("ValueError", o, <<>>) }

\* the dict ab_t2n_prop_class.pwr_test returns
ab_t2n_prop_class_record(o) ==
  [ n |-> o.n, percent_b |-> o.percent_b, mean_diff |-> o.mean_diff,
    sd_a |-> o.sd_a, sd_b |-> o.sd_b, prop_a |-> o.prop_a, prop_b |-> o.prop_b,
    sig_level |-> o.sig_level, power |-> o.power,
    alternative |-> Some(o.alternative),
    method |-> Some("t-test Power Calculation") ]

---------------------------------------------------------------------------
(* The entry points ab_t2n and ab_t2n_prop *)

\* the fields of which exactly one may be None
Solvable(f) ==
  IF f = "ab_t2n" THEN {"n", "percent_b", "mean_diff", "power", "sig_level"}
  ELSE {"n", "percent_b", "prop_a", "prop_b", "power", "sig_level"}

\* none_count = sum(v is None for v in [...])
none_count(f, a) == Cardinality({ k \in Solvable(f) : IsNone(a[k]) })

\* a faulty variant of the range check: 0 and 1 themselves pass
OutOfClosedUnit(x, one) == ~IsNone(x) /\ ~(0 <= Val(x) /\ Val(x) <= one)

\* x is not None and not 0 < x < 1
OutOfUnit(x, one) == ~IsNone(x) /\ ~(0 < Val(x) /\ Val(x) < one)

\* a faulty variant of the checks of ab_t2n: none_count == 0 is let through
ab_t2n_rejects_too_many_only(a) ==
  \/ none_count("ab_t2n", a) > 1
  \/ Val(a.sd_a) <= 0
  \/ Val(a.sd_b) <= 0
  \/ OutOfUnit(a.sig_level, Permille)
  \/ OutOfUnit(a.power, Permille)
  \/ (~IsNone(a.n) /\ Val(a.n) < 10)
  \/ OutOfUnit(a.percent_b, BU)

\* the checks of ab_t2n before it constructs ab_t2n_class
ab_t2n_rejects(a) ==
  \/ none_count("ab_t2n", a) = 0
  \/ none_count("ab_t2n", a) > 1
  \/ Val(a.sd_a) <= 0
  \/ Val(a.sd_b) <= 0
  \/ OutOfUnit(a.sig_level, Permille)
  \/ OutOfUnit(a.power, Permille)
  \/ (~IsNone(a.n) /\ Val(a.n) < 10)
  \/ OutOfUnit(a.percent_b, BU)

\* the checks of ab_t2n_prop before it constructs ab_t2n_prop_class
ab_t2n_prop_rejects(a) ==
  \/ none_count("ab_t2n_prop", a) = 0
  \/ none_count("ab_t2n_prop", a) > 1
  \/ OutOfUnit(a.prop_a, PU)
  \/ OutOfUnit(a.prop_b, PU)
  \/ OutOfUnit(a.sig_level, Permille)
  \/ OutOfUnit(a.power, Permille)
  \/ (~IsNone(a.n) /\ Val(a.n) < 10)
  \/ OutOfUnit(a.percent_b, BU)

---------------------------------------------------------------------------
(* The calls the model makes *)

\* at most this many arguments are left out of a call
MaxNone == 2

NVals == {10, 40, 200}
PbVals == {1, 2, 10}
MdVals == {0 - 8, 0, 8, 80}
PropVals == {8, 20, 38}
SigVals == {50}
PowVals == {800}
MsVals == {40, 151, 2000}
AltVals == {"two-sided", "less", "greater", "Less", "two_sided"}

Opt(S) == { Some(v) : v \in S }

\* the calls with every argument given
ContFull ==
  [ n : Opt(NVals), percent_b : Opt(PbVals), mean_diff : Opt(MdVals),
    sd_a : Opt({PU * PU}), sd_b : Opt({PU * PU}),
    sig_level : Opt(SigVals), power : Opt(PowVals),
    alternative : AltVals, max_sample : MsVals ]

PropFull ==
  [ prop_a : Opt(PropVals), prop_b : Opt(PropVals),
    n : Opt(NVals), percent_b : Opt(PbVals),
    sig_level : Opt(SigVals), power : Opt(PowVals),
    alternative : AltVals, max_sample : MsVals ]

Full(f) == IF f = "ab_t2n" THEN ContFull ELSE PropFull

\* the call a with the arguments of S left out
Blank(a, S) == [k \in DOMAIN a |-> IF k \in S THEN None ELSE a[k]]

Patterns(f) == { S \in SUBSET Solvable(f) : Cardinality(S) <= MaxNone }

\* values the validation has to turn away, by argument
BadVals(k) ==
  IF k = "n" THEN {0, 9}
  ELSE IF k = "percent_b" THEN {0, BU}
  ELSE IF k \in {"prop_a", "prop_b"} THEN {0, PU, 0 - 2}
  ELSE IF k \in {"sig_level", "power"} THEN {0, Permille}
  ELSE {}

BadPairs(f) == { p \in Solvable(f) \X ((0 - 2)..Permille) : p[2] \in BadVals(p[1]) }

\* max_sample only matters to the search for n
Relevant(a) == IsNone(a.n) \/ a.max_sample = 2000

\* well-formed calls, calls with too few or too many arguments left out, and
\* calls with one argument out of its range
GoodCalls(f) == { c \in { Blank(a, S) : a \in Full(f), S \in Patterns(f) } : Relevant(c) }

BadCalls(f) ==
  { [c EXCEPT ![p[1]] = Some(p[2])] :
      c \in { g \in GoodCalls(f) : none_count(f, g) = 1 /\ g.alternative = "two-sided" },
      p \in BadPairs(f) }

Calls(f) == GoodCalls(f) \cup BadCalls(f)

\* self before the constructor has run
NoObject == [ n |-> None ]

---------------------------------------------------------------------------
(* One call of an entry point *)

\* the calls in which the caller constructs the solver class itself, one
\* solvable field left out
DirectCalls(f) == { a \in GoodCalls(f) : a.max_sample = 2000 /\ none_count(f, a) = 1 }

Init ==
  /\ fn \in {"ab_t2n", "ab_t2n_prop"}
  /\ pc \in {"call", "new"}
  /\ args \in IF pc = "call" THEN Calls(fn) ELSE DirectCalls(fn)
  /\ built = FALSE
  /\ self = NoObject
  /\ calls = <<>>
  /\ exc = ""
  /\ result = <<>>

\* ab_t2n: the validation of the arguments
ab_t2n_validate ==
  /\ fn = "ab_t2n" /\ pc = "call"
  /\ IF ab_t2n_rejects(args)
       THEN pc' = "raised" /\ exc' = "ValueError"
       ELSE pc' = "validated" /\ exc' = exc
  /\ UNCHANGED <<fn, args, built, self, calls, result>>

\* ab_t2n_prop: the validation of the arguments
ab_t2n_prop_validate ==
  /\ fn = "ab_t2n_prop" /\ pc = "call"
  /\ IF ab_t2n_prop_rejects(args)
       THEN pc' = "raised" /\ exc' = "ValueError"
       ELSE pc' = "validated" /\ exc' = exc
  /\ UNCHANGED <<fn, args, built, self, calls, result>>

\* ab_t2n_class(...)
ab_t2n_construct ==
  /\ fn = "ab_t2n" /\ pc = "validated"
  /\ IF ab_t2n_class_init_raises(args)
       THEN pc' = "raised" /\ exc' = "TypeError" /\ UNCHANGED <<built, self>>
       ELSE pc' = "constructed" /\ built' = TRUE /\ self' = ab_t2n_class_init(args)
            /\ exc' = exc
  /\ UNCHANGED <<fn, args, calls, result>>

\* ab_t2n_prop_class(...)
ab_t2n_prop_construct ==
  /\ fn = "ab_t2n_prop" /\ pc = "validated"
  /\ pc' = "constructed" /\ built' = TRUE /\ self' = ab_t2n_prop_class_init(args)
  /\ UNCHANGED <<fn, args, calls, exc, result>>

\* what pwr_test() of the constructed object can do
pwr_test_outcomes ==
  IF fn = "ab_t2n" THEN ab_t2n_class_pwr_test(self) ELSE ab_t2n_prop_class_pwr_test(self)

\* the dict pwr_test() returns for the object o
record_of(o) ==
  IF fn = "ab_t2n" THEN ab_t2n_class_record(o) ELSE ab_t2n_prop_class_record(o)

\* .pwr_test(), the printing of the record and the return of the entry point
pwr_test ==
  /\ pc = "constructed"
  /\ \E out \in pwr_test_outcomes :
       /\ self' = out.self
       /\ calls' = out.calls
       /\ exc' = out.exc
       /\ IF out.exc = ""
            THEN pc' = "returned" /\ result' = record_of(out.self)
            ELSE pc' = "raised" /\ result' = result
  /\ UNCHANGED <<fn, args, built>>

\* ab_t2n_class(...) or ab_t2n_prop_class(...) called by the caller itself
class_construct ==
  /\ pc = "new"
  /\ IF fn = "ab_t2n" /\ ab_t2n_class_init_raises(args)
       THEN pc' = "raised" /\ exc' = "TypeError" /\ UNCHANGED <<built, self>>
       ELSE /\ pc' = "solver" /\ built' = TRUE /\ exc' = exc
            /\ self' = IF fn = "ab_t2n" THEN ab_t2n_class_init(args)
                                        ELSE ab_t2n_prop_class_init(args)
  /\ UNCHANGED <<fn, args, calls, result>>

\* the first .pwr_test() on a solver the caller holds
class_pwr_test ==
  /\ pc = "solver"
  /\ \E out \in pwr_test_outcomes :
       /\ self' = out.self
       /\ calls' = out.calls
       /\ exc' = out.exc
       /\ IF out.exc = ""
            THEN pc' = "solved" /\ result' = record_of(out.self)
            ELSE pc' = "raised" /\ result' = result
  /\ UNCHANGED <<fn, args, built>>

\* one more .pwr_test() on the solver that has returned a record
class_pwr_test_again ==
  /\ pc = "solved"
  /\ \E out \in pwr_test_outcomes :
       /\ self' = out.self
       /\ calls' = out.calls
       /\ exc' = out.exc
       /\ IF out.exc = ""
            THEN pc' = "solved_again" /\ result' = record_of(out.self)
            ELSE pc' = "raised_again" /\ result' = result
  /\ UNCHANGED <<fn, args, built>>

Next ==
  \/ ab_t2n_validate
  \/ ab_t2n_prop_validate
  \/ ab_t2n_construct
  \/ ab_t2n_prop_construct
  \/ pwr_test
  \/ class_construct
  \/ class_pwr_test
  \/ class_pwr_test_again

Spec == Init /\ [][Next]_vars

---------------------------------------------------------------------------
(* Properties *)

\* the call has ended, with a record or with an exception
Finished == pc \in {"returned", "raised"}

\* the entry point's validation let the call through
Validated == IF fn = "ab_t2n" THEN ~ab_t2n_rejects(args) ELSE ~ab_t2n_prop_rejects(args)

\* the argument k of the call was left out
Unknown(k) == k \in DOMAIN args /\ IsNone(args[k])

\* the argument k was supplied and is <= 0 or >= 1 (one)
Outside(k, one) ==
  k \in DOMAIN args /\ ~IsNone(args[k]) /\ (Val(args[k]) <= 0 \/ Val(args[k]) >= one)

\* C1: a call of ab_t2n or ab_t2n_prop in which the number of solvable fields
\* that are None is not exactly one ends with ValueError; no solver object is
\* constructed and no root-finder is called.
C1_ExactlyOneNone ==
  (pc # "call" /\ Cardinality({ k \in Solvable(fn) : IsNone(args[k]) }) # 1)
    => (pc = "raised" /\ exc = "ValueError" /\ ~built /\ calls = <<>>)

\* a call of ab_t2n with nothing left out has been turned away
C1_Witness ==
  /\ fn = "ab_t2n" /\ pc = "raised"
  /\ \A k \in Solvable(fn) : ~IsNone(args[k])

\* C2: a supplied n below 10, a supplied sig_level or power <= 0 or >= 1, a
\* supplied percent_b or proportion outside (0, 1) is rejected with ValueError
\* before a solver is constructed or a search started, and the call ends there.
C2_RangesRejected ==
  ( /\ pc # "call"
    /\ \/ (~IsNone(args.n) /\ Val(args.n) < 10)
       \/ Outside("sig_level", Permille) \/ Outside("power", Permille)
       \/ Outside("percent_b", BU)
       \/ Outside("prop_a", PU) \/ Outside("prop_b", PU) )
    => (pc = "raised" /\ exc = "ValueError" /\ ~built /\ calls = <<>>)

\* a call with exactly one field left out and sig_level = 1 has been turned
\* away
C2_Witness ==
  /\ pc = "raised" /\ exc = "ValueError"
  /\ Cardinality({ k \in Solvable(fn) : IsNone(args[k]) }) = 1
  /\ ~IsNone(args.sig_level) /\ Val(args.sig_level) = Permille

\* C3: when mean_diff is the one unknown of ab_t2n, the solve is one brentq
\* over (-10000, 0) if the alternative is less and over (0, 10000) otherwise,
\* whose root becomes mean_diff; with the two-sided alternative the call
\* returns, and with a mean_diff >= 0.
C3_MeanDiffSolved ==
  (fn = "ab_t2n" /\ Validated /\ Unknown("mean_diff") /\ Finished)
    => /\ Len(calls) = 1
       /\ calls[1].finder = "brentq" /\ calls[1].fun = "mean_diff"
       /\ calls[1].a = (IF casefold(args.alternative) = "less" THEN 0 - MdEnd ELSE 0)
       /\ calls[1].b = (IF casefold(args.alternative) = "less" THEN 0 ELSE MdEnd)
       /\ pc = "returned" => ~IsNone(result.mean_diff)
       /\ casefold(args.alternative) = "two-sided"
            => (pc = "returned" /\ Val(result.mean_diff) >= 0)

\* the two-sided call with mean_diff left out has ended in the constructor
C3_Witness ==
  /\ fn = "ab_t2n" /\ Unknown("mean_diff") /\ args.alternative = "two-sided"
  /\ pc = "raised" /\ exc = "TypeError" /\ ~built

\* the bracket of the one brentq call of a one-sided proportion solve
SingleBracket == <<calls[1].a, calls[1].b>>

\* C4: with a one-sided alternative the unknown proportion is searched over
\* (prop_b, 1) for less and (0, prop_b) for greater when prop_a is unknown,
\* and over the mirrored (0, prop_a) for less and (prop_a, 1) for greater
\* when prop_b is unknown, so that prop_b - prop_a has the sign the
\* alternative asks for.
C4_FeasibleInterval ==
  ( /\ fn = "ab_t2n_prop" /\ Validated /\ Finished
    /\ (Unknown("prop_a") \/ Unknown("prop_b"))
    /\ casefold(args.alternative) \in {"less", "greater"} )
    => /\ Len(calls) = 1 /\ calls[1].fun = "single"
       /\ Unknown("prop_a") /\ casefold(args.alternative) = "less"
            => SingleBracket = <<Val(args.prop_b), PU>>
       /\ Unknown("prop_a") /\ casefold(args.alternative) = "greater"
            => SingleBracket = <<0, Val(args.prop_b)>>
       /\ Unknown("prop_b") /\ casefold(args.alternative) = "less"
            => SingleBracket = <<0, Val(args.prop_a)>>
       /\ Unknown("prop_b") /\ casefold(args.alternative) = "greater"
            => SingleBracket = <<Val(args.prop_a), PU>>

\* prop_b was searched above prop_a for the alternative less
C4_Witness ==
  /\ fn = "ab_t2n_prop" /\ Unknown("prop_b") /\ args.alternative = "less"
  /\ Finished /\ Len(calls) = 1
  /\ calls[1].fun = "single" /\ calls[1].a = Val(args.prop_a) /\ calls[1].b = PU

\* a two-sided solve for a proportion
TwoSidedProp ==
  /\ fn = "ab_t2n_prop" /\ Validated
  /\ (Unknown("prop_a") \/ Unknown("prop_b"))
  /\ casefold(args.alternative) = "two-sided"

\* the half (upper or lower) was searched, and a call of it found a root
Searched(half) == \E i \in 1..Len(calls) : calls[i].fun = half
Found(half) == \E i \in 1..Len(calls) : calls[i].fun = half /\ calls[i].out = "root"

\* the value the solve gave the unknown proportion
Resolved == IF Unknown("prop_a") THEN result.prop_a ELSE result.prop_b

\* the proportion the caller supplied
Known == IF Unknown("prop_a") THEN Val(args.prop_b) ELSE Val(args.prop_a)

\* C5: in the two-sided proportion solve a ladder whose brackets all fail
\* does not raise: no ValueError reaches the caller, both halves are
\* searched, and the result is None only if both halves failed.
C5_LadderNeverRaises ==
  (TwoSidedProp /\ Finished /\ exc # "ZeroDivisionError")
    => /\ exc # "ValueError"
       /\ pc = "returned"
       /\ Searched("upper") /\ Searched("lower")
       /\ IsNone(Resolved) <=> (~Found("upper") /\ ~Found("lower"))

\* every ridder call of the upper half of a prop_b solve has failed and the
\* ValueError of the last one has reached the caller
C5_Witness ==
  /\ TwoSidedProp /\ Unknown("prop_b")
  /\ pc = "raised" /\ exc = "ValueError"
  /\ Len(calls) = 4 /\ \A i \in 1..4 : calls[i].fun = "upper" /\ calls[i].out = "ValueError"

\* C6: the two-sided proportion solve resolves the unknown to a list of two
\* roots when both halves found one, to the one root when exactly one half
\* did, and to None when neither did.
C6_ThreeShapes ==
  (TwoSidedProp /\ Finished /\ exc # "ZeroDivisionError")
    => /\ pc = "returned"
       /\ (Found("upper") /\ Found("lower")) => Len(Resolved) = 2
       /\ (Found("upper") /\ ~Found("lower")) => Len(Resolved) = 1
       /\ (~Found("upper") /\ Found("lower")) => Len(Resolved) = 1
       /\ (~Found("upper") /\ ~Found("lower")) => Len(Resolved) = 0

\* the upper half of a prop_b solve found a root, the lower half did not,
\* and the call raised
C6_Witness ==
  /\ TwoSidedProp /\ Unknown("prop_b")
  /\ Found("upper") /\ Searched("lower") /\ ~Found("lower")
  /\ pc = "raised" /\ exc = "ValueError"

\* C7: a pair returned by the two-sided proportion solve has its first element
\* below and its second element above the known proportion.
C7_PairAroundKnown ==
  (TwoSidedProp /\ pc = "returned" /\ Len(Resolved) = 2)
    => (Resolved[1] < Known /\ Known < Resolved[2])

\* a pair was returned whose two elements both lie below the known proportion
C7_Witness ==
  /\ TwoSidedProp /\ pc = "returned" /\ Len(Resolved) = 2
  /\ Resolved[2] < Known

\* the n search of ab_t2n has run
NSearched == fn = "ab_t2n" /\ Validated /\ Unknown("n") /\ built /\ Finished

\* C8: the n search of ab_t2n bisects [min_n, max_sample + 1] first; it
\* bisects again, once, over [min_n, max_sample / 10 + 1], exactly when the
\* first bisect raised ValueError; the call returns exactly when its last
\* bisect found a root and otherwise raises what that bisect raised.  There
\* are never more than two bisect calls.
C8_OneRetry ==
  NSearched
    => /\ Len(calls) \in {1, 2}
       /\ \A i \in 1..Len(calls) :
            /\ calls[i].finder = "bisect" /\ calls[i].fun = "n"
            /\ calls[i].a = FracMax(<<5 * BU, Val(args.percent_b)>>,
                                    <<5 * BU, BU - Val(args.percent_b)>>)
       /\ calls[1].b = <<self.max_sample + MU, MU>>
       /\ Len(calls) = 2 <=> calls[1].out = "ValueError"
       /\ Len(calls) = 2 => calls[2].b = <<self.max_sample + 10 * MU, 10 * MU>>
       /\ pc = "returned" <=> calls[Len(calls)].out = "root"
       /\ pc = "raised" => exc = calls[Len(calls)].out

\* the first bisect failed and the retry over the narrower bracket found n
C8_Witness ==
  /\ NSearched /\ pc = "returned" /\ Len(calls) = 2
  /\ calls[1].out = "ValueError" /\ calls[2].out = "root"

\* the arguments of ab_t2n that the proportions stand for
Derived(a) ==
  [ n |-> a.n, percent_b |-> a.percent_b,
    mean_diff |-> Some(Val(a.prop_b) - Val(a.prop_a)),
    sd_a |-> Some(SdOfProp(Val(a.prop_a))), sd_b |-> Some(SdOfProp(Val(a.prop_b))),
    sig_level |-> a.sig_level, power |-> a.power,
    alternative |-> a.alternative, max_sample |-> a.max_sample ]

\* the outcome out of the continuous solver is the outcome of this call
SameOutcome(out) ==
  /\ out.exc = exc
  /\ out.calls = calls
  /\ pc = "returned" =>
       /\ out.self.n = result.n /\ out.self.percent_b = result.percent_b
       /\ out.self.power = result.power /\ out.self.sig_level = result.sig_level

\* C9: for the unknowns power, n, percent_b and sig_level the proportion
\* solver ends as the continuous solver does on the same inputs with
\* mean_diff, sd_a, sd_b derived from the proportions: the same value or the
\* same failure, after the same bisect calls over the same brackets.
C9_SameAsContinuous ==
  ( /\ fn = "ab_t2n_prop" /\ Validated /\ Finished
    /\ ~Unknown("prop_a") /\ ~Unknown("prop_b") )
    => \E out \in ab_t2n_class_pwr_test(ab_t2n_class_init(Derived(args))) : SameOutcome(out)

\* the proportion solver gave up on n after one bisect where the continuous
\* solver finds n
C9_Witness ==
  /\ fn = "ab_t2n_prop" /\ Validated /\ Unknown("n")
  /\ pc = "raised" /\ exc = "ValueError" /\ Len(calls) = 1
  /\ \E out \in ab_t2n_class_pwr_test(ab_t2n_class_init(Derived(args))) : out.exc = ""

\* C10: every field of a returned record is populated.
C10_AllPopulated ==
  pc = "returned" => \A k \in DOMAIN result : ~IsNone(result[k])

\* a record was returned for an unknown prop_b with mean_diff and sd_b None
C10_Witness ==
  /\ fn = "ab_t2n_prop" /\ Unknown("prop_b") /\ pc = "returned"
  /\ IsNone(result.mean_diff) /\ IsNone(result.sd_b) /\ ~IsNone(result.prop_b)

\* the arguments a record reports back, alternative apart
FrameFields == (DOMAIN args \cap DOMAIN result) \ {"alternative"}

\* what __init__ stores for the supplied argument k
Stored(k) ==
  IF k = "mean_diff" /\ casefold(args.alternative) = "two-sided"
    THEN Some(Abs(Val(args.mean_diff))) ELSE args[k]

\* C11: a successful solve changes only the field that was absent: every
\* other field of the returned record equals the value the caller supplied
\* for it (alternative as the alternative the supplied spelling names).
C11_OnlyUnknownChanges ==
  pc = "returned"
    => /\ result.alternative = Some(casefold(args.alternative))
       /\ \A k \in FrameFields : ~IsNone(args[k]) => result[k] = args[k]

\* C11, amended: every other field of the returned record equals the value
\* the caller supplied for it, except that under the two-sided alternative
\* mean_diff is returned as the absolute value of the supplied one.
C11_OnlyUnknownChangesAbs ==
  pc = "returned"
    => /\ result.alternative = Some(casefold(args.alternative))
       /\ \A k \in FrameFields : ~IsNone(args[k]) => result[k] = Stored(k)

\* a two-sided call with a negative mean_diff returned its absolute value
C11_Witness ==
  /\ fn = "ab_t2n" /\ pc = "returned" /\ casefold(args.alternative) = "two-sided"
  /\ ~Unknown("mean_diff") /\ Val(args.mean_diff) < 0
  /\ result.mean_diff = Some(0 - Val(args.mean_diff))

\* the residual of the percent_b search at the grid value g
GridResidual(g) ==
  IF fn = "ab_t2n" THEN get_percent_b(self, g) ELSE prop_get_percent_b(self, g)

\* a percent_b search ran
PercentBSearched == Validated /\ Unknown("percent_b") /\ built /\ Finished

\* C12: with percent_b unknown the solver returns the least value of the
\* grid [max(0.001, 10/n), 1 - that) whose residual power - target is
\* positive: the residual at the returned value is positive and at no smaller
\* grid value is it positive; when no grid value qualifies, the empty grid
\* included, the solve fails with ValueError. No root-finder is called.
C12_FirstGridPoint ==
  PercentBSearched
    => /\ calls = <<>>
       /\ pc = "returned" =>
            /\ Val(result.percent_b) \in search_grid(self)
            /\ GridResidual(Val(result.percent_b)) = "pos"
            /\ \A g \in search_grid(self) :
                 g < Val(result.percent_b) => GridResidual(g) # "pos"
       /\ pc = "raised" =>
            /\ exc = "ValueError"
            /\ \A g \in search_grid(self) : GridResidual(g) # "pos"

\* a returned percent_b with grid values below it that do not qualify and
\* grid values above it that do
C12_Witness ==
  /\ PercentBSearched /\ pc = "returned"
  /\ \E g \in search_grid(self) : g < Val(result.percent_b)
  /\ \E g \in search_grid(self) : g > Val(result.percent_b) /\ GridResidual(g) = "pos"

\* the grid of a percent_b search was empty and the solve raised
C12_EmptyGrid ==
  PercentBSearched /\ search_grid(self) = {} /\ pc = "raised"

\* n_B = n * percent_b or n_A = n * (1 - percent_b) of the call is <= 1
GroupAtMostOne ==
  \/ Val(args.n) * Val(args.percent_b) <= BU
  \/ Val(args.n) * (BU - Val(args.percent_b)) <= BU

\* the power formula was evaluated on the arguments of the call
PowerEvaluated == Validated /\ Unknown("power") /\ built /\ Finished

\* C13: an evaluation of the power formula with n_A <= 1 or n_B <= 1 fails
\* with a domain error that reaches the caller; no power is returned.
C13_SmallGroupRaises ==
  (PowerEvaluated /\ GroupAtMostOne) => pc = "raised" /\ exc = "ZeroDivisionError"

\* a group size below 1 and a record returned whose power is nan
C13_Witness ==
  /\ PowerEvaluated /\ Val(args.n) * Val(args.percent_b) < BU
  /\ pc = "returned" /\ result.power = Some(0 - 1)

\* a group size of exactly 1 and the division by zero raised
C13_GroupOfOne ==
  /\ PowerEvaluated /\ Val(args.n) * Val(args.percent_b) = BU
  /\ pc = "raised" /\ exc = "ZeroDivisionError"

\* the solver object as its constructor left it
Constructed ==
  IF fn = "ab_t2n" THEN ab_t2n_class_init(args) ELSE ab_t2n_prop_class_init(args)

\* C14: when a solve fails (validation error, bracket failure, empty grid)
\* no record is returned and no field of the solver has changed: the object
\* is as its constructor left it, the absent field still absent. This
\* includes a two-sided proportion solve of which one half found a root
\* before the other raised.
C14_AllOrNothing ==
  pc = "raised"
    => /\ result = <<>>
       /\ exc # ""
       /\ ~built => self = NoObject
       /\ built => self = Constructed /\ \E k \in Solvable(fn) : IsNone(self[k])

\* the upper half of a two-sided proportion solve found a root, the lower
\* half raised, and the proportion is still absent
C14_Witness ==
  /\ fn = "ab_t2n_prop" /\ Unknown("prop_b") /\ pc = "raised" /\ built
  /\ self.alternative = "two-sided" /\ IsNone(self.prop_b)
  /\ \E i \in 1..Len(calls) : calls[i].fun = "upper" /\ calls[i].out = "root"

\* the arguments of the second call of the round trip: n left out, power the
\* one the first call returned
FedBack == [args EXCEPT !.n = None, !.power = result.power]

\* what ab_t2n does on the arguments a once they are validated or rejected
ab_t2n_outcomes(a) ==
  IF ab_t2n_rejects(a) THEN { Outcome("ValueError", NoObject, <<>>) }
  ELSE ab_t2n_class_pwr_test(ab_t2n_class_init(a))

\* the n of the call lies inside the search bracket [min_n, max_sample + 1]
InBracket ==
  /\ Val(args.n) * Val(args.percent_b) >= 5 * BU
  /\ Val(args.n) * (BU - Val(args.percent_b)) >= 5 * BU
  /\ Val(args.n) * MU <= self.max_sample + MU

\* a power was solved from an n inside the bracket for a mean_diff of zero
PowerOfNoDifference ==
  /\ fn = "ab_t2n" /\ PowerEvaluated /\ pc = "returned"
  /\ InBracket /\ Val(args.mean_diff) = 0

\* C15: round trip: for an n inside the search bracket, solving for power
\* from n and then for n from that power, the other arguments the same,
\* returns n or n + 1. Stated for the calls with mean_diff = 0, where the
\* power is the same for every n.
C15_RoundTrip ==
  PowerOfNoDifference
    => \A out \in ab_t2n_outcomes(FedBack) :
         out.exc = "" /\ Val(out.self.n) \in {Val(args.n), Val(args.n) + 1}

\* the second solve of a round trip returned an n below the original n
C15_Witness ==
  /\ PowerOfNoDifference
  /\ \E out \in ab_t2n_outcomes(FedBack) :
       out.exc = "" /\ Val(out.self.n) < Val(args.n)

\* both groups hold at least 5 at the trial n = e[1] / e[2]
FiveEach(e) ==
  /\ e[1] * Val(args.percent_b) >= 5 * BU * e[2]
  /\ e[1] * (BU - Val(args.percent_b)) >= 5 * BU * e[2]

\* an n search ran, of either solver
AnyNSearched == Validated /\ Unknown("n") /\ built /\ Finished

\* C16: during the search for n every trial n has n * percent_b >= 5 and
\* n * (1 - percent_b) >= 5, whatever percent_b and max_sample are; the ends
\* of a bracket are the first trial values of its bisect.
C16_TrialsKeepFive ==
  AnyNSearched
    => \A i \in 1..Len(calls) :
         calls[i].fun = "n" => FiveEach(calls[i].a) /\ FiveEach(calls[i].b)

\* a bisect for n whose upper end lies below min_n, where a group is below 5
C16_Witness ==
  /\ AnyNSearched
  /\ \E i \in 1..Len(calls) :
       /\ calls[i].fun = "n" /\ FracLt(calls[i].b, calls[i].a)
       /\ ~FiveEach(calls[i].b)

\* C17: whenever the solve for n succeeds the returned n is an integer with
\* 10 <= n <= ceil(max_sample) + 1.
C17_NInRange ==
  (AnyNSearched /\ pc = "returned")
    => /\ Val(result.n) >= 10
       /\ Val(result.n) * MU <= MU * Ceil(args.max_sample, MU) + MU

\* a returned n below 10, found by a bisect over a reversed bracket
C17_Witness ==
  /\ AnyNSearched /\ pc = "returned" /\ Val(result.n) < 10
  /\ FracLt(calls[Len(calls)].b, calls[Len(calls)].a)

\* C18: a solver object can be solved only once: after a pwr_test() that
\* returned a record no solvable field is absent, and one more pwr_test() on
\* the same object raises the ValueError of the final else branch, calls no
\* root-finder and returns nothing.
C18_SolvedOnce ==
  /\ pc = "solved" => \A k \in Solvable(fn) : ~IsNone(self[k])
  /\ pc \in {"solved_again", "raised_again"}
       => pc = "raised_again" /\ exc = "ValueError" /\ calls = <<>>

\* the second pwr_test() on a proportion solver returned a record again: the
\* first had left prop_a None
C18_Witness ==
  /\ fn = "ab_t2n_prop" /\ Unknown("prop_a") /\ pc = "solved_again"
  /\ IsNone(result.prop_a) /\ calls # <<>>

\* the second pwr_test() on a solved object raised the ValueError
C18_SecondRaises ==
  pc = "raised_again" /\ exc = "ValueError" /\ calls = <<>>

\* the alternative of the call spells, in whatever case, neither less nor
\* two-sided
OtherSpelling == args.alternative \notin {"less", "Less", "two-sided", "Two-Sided"}

\* the call with its alternative replaced by "greater"
AsGreater == [args EXCEPT !.alternative = "greater"]

\* what pwr_test() does on the solver constructed from the arguments a
outcomes_of(a) ==
  IF fn = "ab_t2n" THEN ab_t2n_class_pwr_test(ab_t2n_class_init(a))
  ELSE ab_t2n_prop_class_pwr_test(ab_t2n_prop_class_init(a))

\* the outcome out is the one of this call, the stored spelling apart
SameButSpelling(out) ==
  /\ out.exc = exc /\ out.calls = calls
  /\ [out.self EXCEPT !.alternative = self.alternative] = self

\* C19: alternative is never validated: a value that after casefold is
\* neither "less" nor "two-sided" is accepted and handled as "greater"
\* everywhere: no error is raised because of it, the solve ends as the same
\* call with "greater" ends (same root-finder calls over the same brackets,
\* same value or failure), mean_diff is kept signed, and an unknown
\* mean_diff is searched over (0, 10000).
C19_OtherIsGreater ==
  (OtherSpelling /\ pc \in {"returned", "raised", "solved"})
    => /\ ~built => ~Validated /\ exc = "ValueError"
       /\ built => \E out \in outcomes_of(AsGreater) : SameButSpelling(out)
       /\ (built /\ fn = "ab_t2n" /\ ~Unknown("mean_diff"))
            => self.mean_diff = args.mean_diff
       /\ (built /\ Unknown("mean_diff"))
            => Len(calls) = 1 /\ calls[1].a = 0 /\ calls[1].b = MdEnd

\* a call spelled "two_sided" with mean_diff unknown returned a mean_diff
\* found over (0, 10000)
C19_Witness ==
  /\ args.alternative = "two_sided" /\ Unknown("mean_diff") /\ pc = "returned"
  /\ calls[1].finder = "brentq" /\ calls[1].a = 0 /\ calls[1].b = MdEnd
  /\ Val(result.mean_diff) > 0

====
